---- MODULE Spec2Model ----
(***************************************************************************)
(* A model of lum.compat-modelapi.js: the InitGroup run-once registry and  *)
(* the Extension base class with its forwarding methods.                   *)
(*                                                                         *)
(* JavaScript values are modelled as strings: "true", "false",             *)
(* "undefined", "null" and "" are the values of that name; every other     *)
(* string is an object, a function or a string value of the program.       *)
(***************************************************************************)
EXTENDS Integers, Sequences, FiniteSets, TLC

\* ------------------------------------------------------------------ bounds
\* The deepest nesting of initializers that call need() while they execute.
MaxDepth == 2

\* ------------------------------------------------------------- JS values
Undefined == "undefined"
Null == "null"
JTrue == "true"
JFalse == "false"
Threw == "threw"

\* JavaScript truthiness of the values the model uses.
Truthy(v) == v \notin {Undefined, Null, JFalse, ""}

\* ---------------------------------------------------------- InitGroup
Groups == {"g1", "g2"}
\* The api object a group may be constructed with.
ApiObj == "apiObj"
\* Functions the host registers as initializers.
UserFns == {"f1", "f2"}
\* Object.prototype.toString, which every plain object inherits.
ObjToString == "Object.prototype.toString"
Callables == UserFns \cup {ObjToString}
\* Property names used as initializer names; "1" is integer-like.
Names == {"a", "1"}
\* A property every plain object inherits from Object.prototype.
ProtoNames == {"toString"}
\* A name argument that is not a string (a number).
NotAString == "#7"
\* A method argument that is not callable (a plain object).
NotCallable == "#obj"
\* The names the host registers on each group.
GroupNames(g) == IF g = "g1" THEN Names ELSE {"a"}
Confs == {"c1"}
\* What an initializer may return.
RetVals == {JTrue, JFalse, Undefined}
\* What Object.prototype.toString returns for a plain object receiver.
ObjectTag == "[object Object]"

VARIABLES
  api,        \* api[g]: this.api of group g
  methods,    \* methods[g]: the own properties of this.methods, in insertion
              \* order: name and fn, and as history the apiIsThis that add() was
              \* asked for and whether need() was called on the name
  run_init,   \* run_init[f]: f._run_init, a property of the function object
  this_api,   \* this_api[f]: f._this_api, a property of the function object
  stack,      \* the call stack: a run() loop and the initializers still executing
  hist,       \* history: hist[f], what became of f since its last successful add:
              \* "fresh" not invoked, "began" invoked, "returned" once an
              \* invocation returned normally
  last,       \* history: the last event, an initializer entered or a call of add,
              \* need or run finished, and what the caller observed
  parent,     \* this.parent of the extension; Undefined until the constructor sets it
  props,      \* props[m][name]: the value of m[name] for the Model instance m
  setups,     \* history: the arguments setup() was invoked with, in order
  elast       \* history: the last call on the extension or on a forwarding
              \* method, and what the caller observed

gvars == <<api, methods, run_init, this_api, stack, hist, last>>
evars == <<parent, props, setups, elast>>
vars == <<api, methods, run_init, this_api, stack, hist, last,
          parent, props, setups, elast>>

\* typeof name === S, typeof method === F
IsString(v) == v \in Names \cup ProtoNames
IsFunction(v) == v \in Callables

\* The numeric value of an integer-like property name.
KeyNum(n) == CASE n = "0" -> 0 [] n = "1" -> 1 [] n = "2" -> 2 [] OTHER -> -1
IsIndexKey(n) == KeyNum(n) >= 0

Registered(g, name) == \E i \in 1..Len(methods[g]) : methods[g][i].name = name

\* The own property of this.methods called name.
Entry(g, name) ==
  methods[g][CHOOSE i \in 1..Len(methods[g]) : methods[g][i].name = name]

\* this.methods[name]: an own property, else what Object.prototype supplies.
Lookup(g, name) ==
  IF Registered(g, name) THEN Entry(g, name).fn
  ELSE IF name \in ProtoNames THEN ObjToString ELSE Undefined

\* The names of a sequence of entries, in sequence order.
NamesOf(q) == [i \in 1..Len(q) |-> q[i].name]

RECURSIVE SortKeys(_)
\* A set of integer-like names in ascending numeric order.
SortKeys(S) ==
  IF S = {} THEN <<>>
  ELSE LET m == CHOOSE x \in S : \A y \in S : KeyNum(x) <= KeyNum(y)
       IN <<m>> \o SortKeys(S \ {m})

RECURSIVE KeepStrings(_)
\* The names of q that are not integer-like, in the order of q.
KeepStrings(q) ==
  IF q = <<>> THEN <<>>
  ELSE IF IsIndexKey(Head(q)) THEN KeepStrings(Tail(q))
       ELSE <<Head(q)>> \o KeepStrings(Tail(q))

\* for (const name in this.methods): integer-like keys first, ascending, then
\* the other keys in insertion order.
ForInKeys(g) ==
  LET ns == NamesOf(methods[g])
  IN SortKeys({n \in Names : IsIndexKey(n) /\ Registered(g, n)}) \o KeepStrings(ns)

\* (meth._this_api && this.api) ? this.api : this
WantThis(g, meth) ==
  IF Truthy(this_api[meth]) /\ Truthy(api[g]) THEN api[g] ELSE g

\* An event: op is "add", "need" or "run" when that call finished with ret (Threw
\* when it raised), and "call" when meth.call(recv, conf) entered an initializer.
\* For add(), out is the message it logged; for a call, the argument passed.
\* did tells whether a finished need() invoked the initializer, first whether it
\* was the first need() on that name, out is what the initializer returned, order
\* the names whose initializer the loop of run() had invoked, in order, and clean
\* whether that run() began with no initializer of the group run.
Event(op, g, name, fn, recv, conf, out, ret, did, first, order, clean) ==
  [op |-> op, g |-> g, name |-> name, fn |-> fn, recv |-> recv, conf |-> conf,
   out |-> out, ret |-> ret, did |-> did, first |-> first, order |-> order,
   clean |-> clean]

None == "none"
NoEvent ==
  Event(None, None, None, None, None, None, None, None, FALSE, FALSE, <<>>, FALSE)
AddEvent(g, logged, ret) ==
  Event("add", g, None, None, None, None, logged, ret, FALSE, FALSE, <<>>, FALSE)
NeedEvent(g, name, out, ret, did, first) ==
  Event("need", g, name, Lookup(g, name), None, None, out, ret, did, first,
        <<>>, FALSE)
RunEvent(g, ret, order, clean) ==
  Event("run", g, None, None, None, None, None, ret, FALSE, FALSE, order, clean)
CallEvent(g, name, meth, conf, passed) ==
  Event("call", g, name, meth, WantThis(g, meth), conf, passed, None, TRUE, FALSE,
        <<>>, FALSE)

Frame(kind, g, name, fn, rest, conf, first, order, clean) ==
  [kind |-> kind, g |-> g, name |-> name, fn |-> fn, rest |-> rest,
   conf |-> conf, first |-> first, order |-> order, clean |-> clean]

\* Whether no need() has been called on the registered name yet.
First(g, name) == Registered(g, name) /\ ~Entry(g, name).needed

\* The entries of a group once need() was called on each name of the set ns.
Needed(q, ns) ==
  [i \in 1..Len(q) |-> IF q[i].name \in ns THEN [q[i] EXCEPT !.needed = TRUE]
                        ELSE q[i]]

Top == stack[Len(stack)]
Pop(s) == SubSeq(s, 1, Len(s) - 1)
InitDepth == Cardinality({i \in 1..Len(stack) : stack[i].kind = "init"})

\* A faulty add(): it writes the flags of the callable before it looks at the
\* name, so a rejected call resets them. C3_RejectedAddIsNoOp fails on it.
addResetsFlags(g, name, method, apiIsThis) ==
  /\ stack = <<>>
  /\ IF IsString(name) /\ IsFunction(method)
     THEN /\ run_init' = [run_init EXCEPT ![method] = JFalse]
          /\ this_api' = [this_api EXCEPT ![method] = apiIsThis]
          /\ hist' = [hist EXCEPT ![method] = "fresh"]
          /\ IF Lookup(g, name) = Undefined
             THEN /\ methods' = [methods EXCEPT
                                   ![g] = Append(@, [name |-> name, fn |-> method,
                                                     asked |-> apiIsThis,
                                                     needed |-> FALSE])]
                  /\ last' = AddEvent(g, None, JTrue)
             ELSE /\ UNCHANGED methods
                  /\ last' = AddEvent(g, "cannot overwrite init method", JFalse)
     ELSE /\ UNCHANGED <<run_init, this_api, methods, hist>>
          /\ last' = AddEvent(g, "invalid init method", JFalse)
  /\ UNCHANGED <<api, stack>>
  /\ UNCHANGED evars

\* add(name, method, apiIsThis), called by the host between initializations.
add(g, name, method, apiIsThis) ==
  /\ stack = <<>>
  /\ IF IsString(name) /\ IsFunction(method)
     THEN IF Lookup(g, name) = Undefined
          THEN /\ run_init' = [run_init EXCEPT ![method] = JFalse]
               /\ this_api' = [this_api EXCEPT ![method] = apiIsThis]
               /\ methods' = [methods EXCEPT
                                ![g] = Append(@, [name |-> name, fn |-> method,
                                                  asked |-> apiIsThis,
                                                  needed |-> FALSE])]
               /\ hist' = [hist EXCEPT ![method] = "fresh"]
               /\ last' = AddEvent(g, None, JTrue)
          ELSE \* "cannot overwrite init method"
               /\ UNCHANGED <<run_init, this_api, methods, hist>>
               /\ last' = AddEvent(g, "cannot overwrite init method", JFalse)
     ELSE \* "invalid init method"
          /\ UNCHANGED <<run_init, this_api, methods, hist>>
          /\ last' = AddEvent(g, "invalid init method", JFalse)
  /\ UNCHANGED <<api, stack>>
  /\ UNCHANGED evars

\* The invocation meth.call(wantThis, conf) of need(): the initializer starts
\* to execute above the frames `below`, and need() waits for it; h is the
\* history of the callables up to there.
Enter(g, name, meth, conf, first, below, h) ==
  /\ stack' = Append(below,
                     Frame("init", g, name, meth, <<>>, conf, first, <<>>, FALSE))
  /\ hist' = [h EXCEPT ![meth] = IF @ = "fresh" THEN "began" ELSE @]
  /\ last' = CallEvent(g, name, meth, conf, conf)

\* A faulty need(): it does not test meth._run_init, and invokes the initializer
\* on every call. C1_NotInvokedOnceReturned fails on it.
needRerun(g, name, conf) ==
  LET meth == Lookup(g, name)
  IN /\ \/ stack = <<>>
        \/ /\ stack # <<>>
           /\ Top.kind = "init"
           /\ Top.fn \in UserFns
           /\ Top.g = g
           /\ InitDepth < MaxDepth
     /\ methods' = [methods EXCEPT ![g] = Needed(@, {name})]
     /\ IF ~IsFunction(meth)
        THEN /\ last' = NeedEvent(g, name, None, JFalse, FALSE, First(g, name))
             /\ UNCHANGED <<stack, hist>>
        ELSE Enter(g, name, meth, conf, First(g, name), stack, hist)
     /\ UNCHANGED <<api, run_init, this_api>>
     /\ UNCHANGED evars

\* need(name, conf), called by the host, or by an initializer that is executing
\* on the group that runs it.
need(g, name, conf) ==
  LET meth == Lookup(g, name)
  IN /\ \/ stack = <<>>
        \/ /\ stack # <<>>
           /\ Top.kind = "init"
           /\ Top.fn \in UserFns
           /\ Top.g = g
           /\ InitDepth < MaxDepth
     /\ methods' = [methods EXCEPT ![g] = Needed(@, {name})]
     /\ IF ~IsFunction(meth)
        THEN \* "invalid init method requested"
             /\ last' = NeedEvent(g, name, None, JFalse, FALSE, First(g, name))
             /\ UNCHANGED <<stack, hist>>
        ELSE IF Truthy(run_init[meth])
             THEN \* This function has already been run.
                  /\ last' = NeedEvent(g, name, None, JTrue, FALSE, First(g, name))
                  /\ UNCHANGED <<stack, hist>>
             ELSE Enter(g, name, meth, conf, First(g, name), stack, hist)
     /\ UNCHANGED <<api, run_init, this_api>>
     /\ UNCHANGED evars

RECURSIVE SkipDone(_, _, _)
\* The keys left once the loop of run() has passed those whose need() returns at
\* once, under the flags ri.
SkipDone(g, keys, ri) ==
  IF keys = <<>> THEN <<>>
  ELSE IF Truthy(ri[Lookup(g, Head(keys))]) THEN SkipDone(g, Tail(keys), ri)
       ELSE keys

\* The keys the loop has called need() on when todo of keys are left.
Passed(keys, todo) ==
  {keys[i] : i \in 1..(Len(keys) - Len(todo))}
    \cup (IF todo = <<>> THEN {} ELSE {Head(todo)})

\* The loop of run(), frame fr, over keys: need(name, conf) for each key, up to
\* the first initializer that has to execute, or to the end of the keys.
Loop(fr, keys, ri, h) ==
  LET todo == SkipDone(fr.g, keys, ri)
  IN /\ methods' = [methods EXCEPT ![fr.g] = Needed(@, Passed(keys, todo))]
     /\ IF todo = <<>>
        THEN /\ stack' = <<>>
             /\ last' = RunEvent(fr.g, Undefined, fr.order, fr.clean)
             /\ hist' = h
        ELSE Enter(fr.g, Head(todo), Lookup(fr.g, Head(todo)), fr.conf, FALSE,
                   <<[fr EXCEPT !.rest = Tail(todo),
                                 !.order = Append(@, Head(todo))]>>, h)

\* run(conf), called by the host.
run(g, conf) ==
  /\ stack = <<>>
  /\ Loop(Frame("run", g, None, None, <<>>, conf, FALSE, <<>>,
                \A i \in 1..Len(methods[g]) : ~Truthy(run_init[methods[g][i].fn])),
          ForInKeys(g), run_init, hist)
  /\ UNCHANGED <<api, run_init, this_api>>
  /\ UNCHANGED evars

\* return ret: what need() returns once the initializer returned v.
NeedResult(v) == v

\* The initializer on top of the stack returns v: need() sets _run_init and
\* returns v to its caller; a run() that called it goes on with its loop.
initReturn(v) ==
  /\ stack # <<>>
  /\ Top.kind = "init"
  /\ v \in (IF Top.fn = ObjToString THEN {ObjectTag} ELSE RetVals)
  /\ LET f == Top
         below == Pop(stack)
         ri == [run_init EXCEPT ![f.fn] = JTrue]
     IN /\ run_init' = ri
        /\ IF below # <<>> /\ below[Len(below)].kind = "run"
           THEN Loop(below[Len(below)], below[Len(below)].rest, ri,
                     [hist EXCEPT ![f.fn] = "returned"])
           ELSE /\ stack' = below
                /\ last' = NeedEvent(f.g, f.name, v, NeedResult(v), TRUE, f.first)
                /\ hist' = [hist EXCEPT ![f.fn] = "returned"]
                /\ UNCHANGED methods
  /\ UNCHANGED <<api, this_api>>
  /\ UNCHANGED evars

\* A faulty need(): it sets _run_init also when the initializer raises.
\* C19_RaiseLeavesUnrun fails on it.
initThrowMarksRun ==
  /\ stack # <<>>
  /\ Top.kind = "init"
  /\ Top.fn \in UserFns
  /\ LET f == Top
         below == Pop(stack)
     IN /\ run_init' = [run_init EXCEPT ![f.fn] = JTrue]
        /\ IF below # <<>> /\ below[Len(below)].kind = "run"
           THEN /\ stack' = Pop(below)
                /\ last' = RunEvent(f.g, Threw, below[Len(below)].order,
                                    below[Len(below)].clean)
           ELSE /\ stack' = below
                /\ last' = NeedEvent(f.g, f.name, Threw, Threw, TRUE, f.first)
  /\ UNCHANGED <<api, methods, this_api, hist>>
  /\ UNCHANGED evars

\* The initializer on top of the stack raises: need(), and a run() that called
\* it, end there, and _run_init is not set.
initThrow ==
  /\ stack # <<>>
  /\ Top.kind = "init"
  /\ Top.fn \in UserFns
  /\ LET f == Top
         below == Pop(stack)
     IN IF below # <<>> /\ below[Len(below)].kind = "run"
        THEN /\ stack' = Pop(below)
             /\ last' = RunEvent(f.g, Threw, below[Len(below)].order,
                                 below[Len(below)].clean)
        ELSE /\ stack' = below
             /\ last' = NeedEvent(f.g, f.name, Threw, Threw, TRUE, f.first)
  /\ UNCHANGED <<api, methods, run_init, this_api, hist>>
  /\ UNCHANGED evars

\* The arguments add() is called with. On the first group: every name with
\* every function and flag, and one call for each kind of ill-typed argument and
\* for an inherited name. On the second group: one registration, of a function
\* that the first group may hold too.
AddArgs(g) ==
  IF g = "g1"
  THEN (GroupNames(g) \X UserFns \X {JTrue, JFalse})
         \cup {<<NotAString, "f1", JFalse>>, <<"a", NotCallable, JTrue>>,
               <<"toString", "f2", JFalse>>}
  ELSE {<<"a", "f1", JFalse>>}

GNext ==
  \/ \E g \in Groups : \E a \in AddArgs(g) : add(g, a[1], a[2], a[3])
  \/ \E g \in Groups :
       \E name \in GroupNames(g) \cup ProtoNames, conf \in Confs :
         need(g, name, conf)
  \/ \E g \in Groups, conf \in Confs : run(g, conf)
  \/ \E v \in RetVals \cup {ObjectTag} : initReturn(v)
  \/ initThrow

\* ---------------------------------------------------------- Extension
\* The extension object under construction or constructed.
Ext == "ext"
\* Instances of Model.
Models == {"m1"}
\* A value that is no instance of Model: a plain object.
NotModel == "#plain"
\* The methods the concrete extension class defines.
ExtMethods == {"foo", "bar"}
\* A name the extension has no method for.
NoMethod == "nope"
\* The property names of a Model that this model follows; "own" is a member the
\* Model defines itself.
PropNames == ExtMethods \cup {"own"}
\* The destName arguments: omitted, the empty string, and names of the Model.
DestArgs == {Undefined, "", "bar", "own"}
\* What a method of the extension may return.
ExtRets == {"r1", Undefined}
\* The argument lists a forwarding method is called with.
ArgLists == {<<"x", "y">>}
\* The setup hooks of the concrete extension classes: none, one that registers
\* nothing, and one that calls this.addHandledMethod("foo").
NoHook == "nohook"
Hooks == {NoHook, "plain", "adds"}

\* Property values: undefined, the Model's own member, and the function that
\* addHandledMethod() installs, which closes over ext, srcName and applyThis;
\* mode is history, whether modelIsThis was truthy when it was installed.
Prop(kind, src, recv, mode) == [kind |-> kind, src |-> src, recv |-> recv, mode |-> mode]
NoProp == Prop(Undefined, None, None, FALSE)
OwnProp == Prop("own", None, None, FALSE)
Forwarder(srcName, applyThis, mode) == Prop("fwd", srcName, applyThis, mode)

\* apiInstance instanceof Model
IsModel(v) == v \in Models
\* typeof this[srcName] === F
ExtHas(srcName) == srcName \in ExtMethods

\* A message: the name it begins with, if any, and its text.
Msg(who, text) == [who |-> who, text |-> text]
NoMsg == Msg(None, None)

\* No argument of addHandledMethods().
NoArg == [type |-> None, isArray |-> FALSE, items |-> <<>>]

\* An event: op is "new", "addHandledMethod", "addHandledMethods" or "clear" when
\* that call finished with ret (Threw when it raised), and "forward" when the
\* forwarding method m[name] was called with the arguments `given`: src, recv
\* and args are the method of the extension it ran, the receiver and the
\* arguments, out what that method ended with, ret what the caller got. forced
\* holds the destination names asked for with a truthy canReplace, logged the
\* message sent to console.error or carried by the error raised, arg the
\* argument of addHandledMethods(), and left the number of its entries whose
\* addHandledMethod() call had not returned when it ended.
EEvent(op, m, name, src, recv, mode, given, args, out, ret, forced, logged) ==
  [op |-> op, m |-> m, name |-> name, src |-> src, recv |-> recv, mode |-> mode,
   given |-> given, args |-> args, out |-> out, ret |-> ret, forced |-> forced,
   logged |-> logged, arg |-> NoArg, left |-> 0]
NoEEvent ==
  EEvent(None, None, None, None, None, FALSE, <<>>, <<>>, None, None, {}, NoMsg)
NewEvent(apiInstance, hook, ret) ==
  EEvent("new", apiInstance, None, hook, None, FALSE, <<>>, <<>>, None, ret, {},
         NoMsg)

\* A faulty addHandledMethod(): it installs the forwarding method whatever the
\* parent already has under the name. C5_ReplaceProtection fails on it.
HandledNoGuard(pr, par, srcName, destName, modelIsThis, canReplace) ==
  LET dest == IF Truthy(destName) THEN destName ELSE srcName
  IN IF ExtHas(srcName) /\ par # Null
     THEN [props |-> [pr EXCEPT ![par][dest] =
                        Forwarder(srcName,
                                  IF Truthy(modelIsThis) THEN par ELSE Ext,
                                  Truthy(modelIsThis))],
           ret |-> Undefined, dest |-> dest, msg |-> NoMsg]
     ELSE [props |-> pr, ret |-> Threw, dest |-> dest, msg |-> NoMsg]

\* A faulty addHandledMethod(): it looks at the destination before it looks for
\* the method of the extension. C17_MissingSourceFirst fails on it.
HandledDestFirst(pr, par, srcName, destName, modelIsThis, canReplace) ==
  LET dest == IF Truthy(destName) THEN destName ELSE srcName
  IN IF par = Null
     THEN [props |-> pr, ret |-> Threw, dest |-> dest, msg |-> Msg(None, "TypeError")]
     ELSE IF dest \in PropNames /\ ~Truthy(canReplace) /\ pr[par][dest] # NoProp
     THEN [props |-> pr, ret |-> Threw, dest |-> dest,
           msg |-> Msg(dest, " was already defined in the Model")]
     ELSE IF ~ExtHas(srcName)
     THEN [props |-> pr, ret |-> Threw, dest |-> dest,
           msg |-> Msg(srcName, " method not found in the Extension")]
     ELSE [props |-> [pr EXCEPT ![par][dest] =
                        Forwarder(srcName,
                                  IF Truthy(modelIsThis) THEN par ELSE Ext,
                                  Truthy(modelIsThis))],
           ret |-> Undefined, dest |-> dest, msg |-> NoMsg]

\* addHandledMethod(srcName, destName, modelIsThis, canReplace) of the extension
\* whose parent is par, on the properties pr: the properties it leaves, what its
\* caller gets (Threw for a raised error), and the destination name.
Handled(pr, par, srcName, destName, modelIsThis, canReplace) ==
  LET dest == IF Truthy(destName) THEN destName ELSE srcName
  IN IF ExtHas(srcName)
     THEN IF par = Null
          THEN \* this.parent[destName] raises a TypeError, read or written
               [props |-> pr, ret |-> Threw, dest |-> dest, msg |-> Msg(None, "TypeError")]
          ELSE IF Truthy(canReplace) \/ pr[par][dest] = NoProp
               THEN [props |-> [pr EXCEPT ![par][dest] =
                                  Forwarder(srcName,
                                            IF Truthy(modelIsThis) THEN par
                                            ELSE Ext,
                                            Truthy(modelIsThis))],
                     ret |-> Undefined, dest |-> dest, msg |-> NoMsg]
               ELSE [props |-> pr, ret |-> Threw, dest |-> dest,
                     msg |-> Msg(dest, " was already defined in the Model")]
     ELSE [props |-> pr, ret |-> Threw, dest |-> dest,
           msg |-> Msg(srcName, " method not found in the Extension")]

\* What the setup hook of the concrete class does to the properties.
Setup(hook, pr, par) ==
  IF hook = "adds" THEN Handled(pr, par, "foo", Undefined, Undefined, Undefined)
  ELSE [props |-> pr, ret |-> Undefined, dest |-> None, msg |-> NoMsg]

\* A faulty constructor: it stores the parent and invokes the setup hook before
\* it tests the parent. C6_InvalidParentNoState fails on it.
constructLateCheck(apiInstance, hook) ==
  /\ parent = Undefined
  /\ parent' = apiInstance
  /\ setups' = IF hook # NoHook THEN Append(setups, apiInstance) ELSE setups
  /\ props' = IF hook # NoHook /\ IsModel(apiInstance)
              THEN Setup(hook, props, apiInstance).props ELSE props
  /\ elast' = NewEvent(apiInstance, hook,
                       IF IsModel(apiInstance)
                       THEN Setup(hook, props, apiInstance).ret ELSE Threw)
  /\ UNCHANGED gvars

\* A faulty constructor: it invokes the setup hook before it stores the parent,
\* so an addHandledMethod() in the hook finds no parent and raises.
\* C18_ParentThenSetup fails on it.
constructSetupFirst(apiInstance, hook) ==
  /\ parent = Undefined
  /\ IF ~IsModel(apiInstance)
     THEN /\ elast' = NewEvent(apiInstance, hook, Threw)
          /\ UNCHANGED <<parent, props, setups>>
     ELSE /\ setups' = IF hook # NoHook THEN Append(setups, apiInstance)
                       ELSE setups
          /\ parent' = IF hook = "adds" THEN parent ELSE apiInstance
          /\ elast' = NewEvent(apiInstance, hook,
                               IF hook = "adds" THEN Threw ELSE Undefined)
          /\ UNCHANGED props
  /\ UNCHANGED gvars

\* new SomeExtension(apiInstance), where the class has the setup hook `hook`.
construct(apiInstance, hook) ==
  /\ parent = Undefined
  /\ IF ~IsModel(apiInstance)
     THEN \* "Extension must be passed it's parent Model"
          /\ elast' = NewEvent(apiInstance, hook, Threw)
          /\ UNCHANGED <<parent, props, setups>>
     ELSE /\ parent' = apiInstance
          /\ IF hook # NoHook
             THEN /\ setups' = Append(setups, apiInstance)
                  /\ props' = Setup(hook, props, apiInstance).props
                  /\ elast' = NewEvent(apiInstance, hook,
                                       Setup(hook, props, apiInstance).ret)
             ELSE /\ elast' = NewEvent(apiInstance, hook, Undefined)
                  /\ UNCHANGED <<props, setups>>
  /\ UNCHANGED gvars

\* this.addHandledMethod(srcName, destName, modelIsThis, canReplace)
addHandledMethod(srcName, destName, modelIsThis, canReplace) ==
  /\ parent # Undefined
  /\ LET r == Handled(props, parent, srcName, destName, modelIsThis, canReplace)
     IN /\ props' = r.props
        /\ elast' = EEvent("addHandledMethod", parent, r.dest, srcName, None,
                           Truthy(modelIsThis), <<>>, <<>>, None, r.ret,
                           IF Truthy(canReplace) THEN {r.dest} ELSE {}, r.msg)
  /\ UNCHANGED <<parent, setups>>
  /\ UNCHANGED gvars

\* The values given to addHandledMethods(): v is the string or boolean, and an
\* object has the three option fields, Undefined where it has none.
Val(type, v, destName, modelIsThis, canReplace) ==
  [type |-> type, v |-> v, destName |-> destName, modelIsThis |-> modelIsThis,
   canReplace |-> canReplace]
Str(v) == Val("string", v, Undefined, Undefined, Undefined)
Bool(v) == Val("boolean", v, Undefined, Undefined, Undefined)
Obj(destName, modelIsThis, canReplace) ==
  Val("object", None, destName, modelIsThis, canReplace)
NullVal == Val("null", None, Undefined, Undefined, Undefined)
Num == Val("number", "7", Undefined, Undefined, Undefined)
\* typeof v
TypeOf(v) == IF v.type = "null" THEN "object" ELSE v.type

\* An argument of addHandledMethods(): its type, and for an array or an object
\* its elements, or its keys and values in the order for-in visits them.
Arg(type, isArray, items) == [type |-> type, isArray |-> isArray, items |-> items]
Arr(names) == Arg("object", TRUE, [i \in 1..Len(names) |-> [key |-> None, val |-> Str(names[i])]])
Map(items) == Arg("object", FALSE, items)
KV(key, val) == [key |-> key, val |-> val]

\* The addHandledMethod() call that the loops of addHandledMethods() make for
\* one entry, on the properties pr.
EntryHandled(pr, par, isArray, it) ==
  IF isArray THEN Handled(pr, par, it.val.v, Undefined, Undefined, Undefined)
  ELSE CASE TypeOf(it.val) = "string" ->
              Handled(pr, par, it.key, it.val.v, Undefined, Undefined)
         [] TypeOf(it.val) = "boolean" ->
              Handled(pr, par, it.key, Null, it.val.v, Undefined)
         [] it.val.type = "object" ->
              Handled(pr, par, it.key, it.val.destName, it.val.modelIsThis,
                      it.val.canReplace)
         [] it.val.type = "null" ->
              [props |-> pr, ret |-> Threw, dest |-> None,
               msg |-> Msg(None, "TypeError")]
         [] OTHER ->
              [props |-> pr, ret |-> Undefined, dest |-> None, msg |-> NoMsg]

RECURSIVE AfterEntries(_, _, _, _, _)
\* The properties once the calls for the first k entries of items were made, one
\* after the other, from the properties pr.
AfterEntries(pr, par, isArray, items, k) ==
  IF k = 0 THEN pr
  ELSE EntryHandled(AfterEntries(pr, par, isArray, items, k - 1), par, isArray,
                    items[k]).props

RECURSIVE OneByOne(_, _, _)
\* this.addHandledMethod(name) for each name of names, one call after the
\* other, from the properties pr, up to the first call that raises.
OneByOne(pr, par, names) ==
  IF names = <<>> THEN [props |-> pr, ret |-> Undefined]
  ELSE LET r == Handled(pr, par, Head(names), Undefined, Undefined, Undefined)
       IN IF r.ret = Threw THEN [props |-> r.props, ret |-> Threw]
          ELSE OneByOne(r.props, par, Tail(names))

RECURSIVE BulkSkipsErrors(_, _, _, _, _)
\* Faulty loops of addHandledMethods(): an entry whose call raises is passed
\* over, and the loop goes on. C14_ListAsSingleCalls fails on it.
BulkSkipsErrors(pr, par, isArray, items, forced) ==
  IF items = <<>>
  THEN [props |-> pr, ret |-> Undefined, forced |-> forced, left |-> 0]
  ELSE BulkSkipsErrors(EntryHandled(pr, par, isArray, Head(items)).props, par,
                       isArray, Tail(items), forced)

RECURSIVE BulkSkipsFalsy(_, _, _, _, _)
\* Faulty loops of addHandledMethods(): the value of an entry is tested for
\* truth before its type, so an empty string or false is passed over.
\* C15_SpecForms fails on it.
BulkSkipsFalsy(pr, par, isArray, items, forced) ==
  IF items = <<>>
  THEN [props |-> pr, ret |-> Undefined, forced |-> forced, left |-> 0]
  ELSE LET it == Head(items)
           r == IF ~isArray /\ it.val.type \in {"string", "boolean"}
                            /\ ~Truthy(it.val.v)
                THEN [props |-> pr, ret |-> Undefined, dest |-> None,
                      msg |-> NoMsg]
                ELSE EntryHandled(pr, par, isArray, it)
           f == IF ~isArray /\ it.val.type = "object" /\ Truthy(it.val.canReplace)
                THEN forced \cup {r.dest} ELSE forced
       IN IF r.ret = Threw
          THEN [props |-> pr, ret |-> Threw, forced |-> f, left |-> Len(items)]
          ELSE BulkSkipsFalsy(r.props, par, isArray, Tail(items), f)

RECURSIVE BulkAtomic(_, _, _, _, _)
\* Faulty loops of addHandledMethods(): when a call raises, the forwarding
\* methods of the entries before it are taken back. C20_BulkNotAtomic fails on
\* it.
BulkAtomic(pr, par, isArray, items, forced) ==
  IF items = <<>>
  THEN [props |-> pr, ret |-> Undefined, forced |-> forced, left |-> 0]
  ELSE LET r == EntryHandled(pr, par, isArray, Head(items))
           rest == BulkAtomic(r.props, par, isArray, Tail(items), forced)
       IN IF r.ret = Threw
          THEN [props |-> pr, ret |-> Threw, forced |-> forced,
                left |-> Len(items)]
          ELSE IF rest.ret = Threw THEN [rest EXCEPT !.props = pr]
          ELSE rest

RECURSIVE Bulk(_, _, _, _, _)
\* The loops of addHandledMethods() over items, from the properties pr: each
\* entry is handed to addHandledMethod(), and the first error ends the loop.
Bulk(pr, par, isArray, items, forced) ==
  IF items = <<>>
  THEN [props |-> pr, ret |-> Undefined, forced |-> forced, left |-> 0]
  ELSE LET it == Head(items)
           spec == it.val
           r == IF isArray
                THEN Handled(pr, par, spec.v, Undefined, Undefined, Undefined)
                ELSE IF TypeOf(spec) = "string"
                THEN Handled(pr, par, it.key, spec.v, Undefined, Undefined)
                ELSE IF TypeOf(spec) = "boolean"
                THEN Handled(pr, par, it.key, Null, spec.v, Undefined)
                ELSE IF TypeOf(spec) = "object"
                THEN IF spec.type = "null"
                     THEN \* methSpec.destName raises a TypeError
                          [props |-> pr, ret |-> Threw, dest |-> None,
                           msg |-> Msg(None, "TypeError")]
                     ELSE Handled(pr, par, it.key, spec.destName,
                                  spec.modelIsThis, spec.canReplace)
                ELSE \* no branch takes the value: the entry is passed over
                     [props |-> pr, ret |-> Undefined, dest |-> None,
                      msg |-> NoMsg]
           f == IF ~isArray /\ spec.type = "object" /\ Truthy(spec.canReplace)
                THEN forced \cup {r.dest} ELSE forced
       IN IF r.ret = Threw
          THEN [props |-> pr, ret |-> Threw, forced |-> f, left |-> Len(items)]
          ELSE Bulk(r.props, par, isArray, Tail(items), f)

\* The event of addHandledMethods(methodsToAdd).
BulkEvent(methodsToAdd, ret, forced, logged, left) ==
  [EEvent("addHandledMethods", parent, None, None, None, FALSE, <<>>, <<>>, None,
          ret, forced, logged) EXCEPT !.arg = methodsToAdd, !.left = left]

\* this.addHandledMethods(methodsToAdd)
addHandledMethods(methodsToAdd) ==
  /\ parent # Undefined
  /\ IF TypeOf(methodsToAdd) = "object"
     THEN LET r == Bulk(props, parent, methodsToAdd.isArray, methodsToAdd.items, {})
          IN /\ props' = r.props
             /\ elast' = BulkEvent(methodsToAdd, r.ret, r.forced, NoMsg, r.left)
     ELSE /\ elast' = BulkEvent(methodsToAdd, Undefined, {},
                                Msg(None, "Non-object sent to addHandledMethods()"),
                                0)
          /\ UNCHANGED props
  /\ UNCHANGED <<parent, setups>>
  /\ UNCHANGED gvars

\* The host clears the parent field of the extension: ext.parent = null.
clearParent ==
  /\ parent \in Models
  /\ parent' = Null
  /\ elast' = EEvent("clear", None, None, None, None, FALSE, <<>>, <<>>, None,
                     Undefined, {}, NoMsg)
  /\ UNCHANGED <<props, setups>>
  /\ UNCHANGED gvars

\* What the caller of a forwarding method gets when the method of the extension
\* ended with out: the function has no return statement.
Forwarded(out) == IF out = Threw THEN Threw ELSE Undefined

\* A faulty forwarding method: it reads this.parent when it is called, not when
\* it is installed. C8_ReceiverFixedAtInstall fails on it.
callForwarderLate(m, name, given, out) ==
  /\ props[m][name].kind = "fwd"
  /\ elast' = EEvent("forward", m, name, props[m][name].src,
                     IF props[m][name].mode THEN parent ELSE Ext,
                     props[m][name].mode, given, given, out, Forwarded(out), {},
                     NoMsg)
  /\ UNCHANGED <<parent, props, setups>>
  /\ UNCHANGED gvars

\* m[name](...given), where m[name] is a forwarding method: it runs
\* ext[srcName].apply(applyThis, arguments), and the method ends with out.
callForwarder(m, name, given, out) ==
  /\ props[m][name].kind = "fwd"
  /\ elast' = EEvent("forward", m, name, props[m][name].src, props[m][name].recv,
                     props[m][name].mode, given, given, out, Forwarded(out), {},
                     NoMsg)
  /\ UNCHANGED <<parent, props, setups>>
  /\ UNCHANGED gvars

\* The arguments addHandledMethods() is called with: arrays of names, objects
\* with a value of each form, null, and values that are no object.
BulkArgs ==
  { Arr(<<>>), Arr(<<"foo", "bar">>), Arr(<<"foo", "nope">>),
    Arr(<<"nope", "foo">>), Arr(<<"bar", "bar">>),
    Map(<<KV("foo", Str("own"))>>),
    Map(<<KV("foo", Str("")), KV("bar", Bool(JTrue))>>),
    Map(<<KV("bar", Bool(JFalse)), KV("foo", Obj(Undefined, Undefined, Undefined))>>),
    Map(<<KV("foo", Obj("own", JTrue, JTrue)), KV("bar", Obj(Undefined, Undefined, JTrue))>>),
    Map(<<KV("foo", Num), KV("bar", Str("bar"))>>),
    Map(<<KV("bar", Bool(JTrue)), KV("foo", NullVal), KV("nope", Str("foo"))>>),
    Map(<<KV("foo", Str("bar")), KV("bar", Str("")), KV("nope", Bool(JFalse))>>),
    Arg("null", FALSE, <<>>),
    Arg("string", FALSE, <<>>), Arg("number", FALSE, <<>>),
    Arg("boolean", FALSE, <<>>), Arg("undefined", FALSE, <<>>),
    Arg("function", FALSE, <<>>) }

ENext ==
  \/ \E a \in Models \cup {NotModel, Null}, h \in Hooks : construct(a, h)
  \/ \E s \in ExtMethods \cup {NoMethod}, d \in DestArgs,
        t \in {JTrue, JFalse}, c \in {JTrue, JFalse} :
       addHandledMethod(s, d, t, c)
  \/ \E a \in BulkArgs : addHandledMethods(a)
  \/ clearParent
  \/ \E m \in Models, n \in PropNames, g \in ArgLists, o \in ExtRets \cup {Threw} :
       callForwarder(m, n, g, o)

\* new InitGroup("g1", apiObj) and new InitGroup("g2"); no extension is
\* constructed yet, and the Model has its own member.
Init ==
  /\ api = [g \in Groups |-> IF g = "g1" THEN ApiObj ELSE Null]
  /\ methods = [g \in Groups |-> <<>>]
  /\ run_init = [f \in Callables |-> Undefined]
  /\ this_api = [f \in Callables |-> Undefined]
  /\ stack = <<>>
  /\ hist = [f \in Callables |-> "fresh"]
  /\ last = NoEvent
  /\ parent = Undefined
  /\ props = [m \in Models |->
               [n \in PropNames |-> IF n = "own" THEN OwnProp ELSE NoProp]]
  /\ setups = <<>>
  /\ elast = NoEEvent

\* The InitGroup machine.
Spec == Init /\ [][GNext]_vars

\* The Extension machine.
ExtSpec == Init /\ [][ENext]_vars

\* ------------------------------------------------------------ InitGroup claims

\* C1 as stated: every sequence of need and run calls on a group invokes the
\* initializer of a registered name exactly once: an initializer is entered only
\* if it was never invoked since it was registered.
C1_InvokedExactlyOnce ==
  [][last'.op = "call" => hist[last'.fn] = "fresh"]_vars

\* C1 as amended: an initializer whose invocation has returned normally is not
\* invoked again by any later need or run; one whose invocation raised, or has
\* not returned yet, is still unrun and may be invoked again.
C1_NotInvokedOnceReturned ==
  [][last'.op = "call" => hist[last'.fn] # "returned"]_vars

\* A need on a name whose initializer had returned normally came back with true
\* and invoked nothing.
C1_Witness ==
  /\ last.op = "need"
  /\ Registered(last.g, last.name)
  /\ hist[last.fn] = "returned"
  /\ ~last.did
  /\ last.ret = JTrue

\* Whether the names of group g hold different callables.
Injective(g) ==
  \A i, j \in 1..Len(methods[g]) :
    methods[g][i].fn = methods[g][j].fn => i = j

\* C2: run(conf) on a group whose initializers are all unrun invokes every
\* registered initializer once, in the order the names were registered.
C2_RunInInsertionOrder ==
  (last.op = "run" /\ last.ret = Undefined /\ last.clean /\ Injective(last.g))
    => last.order = NamesOf(methods[last.g])

\* C3: a rejected add returns false and changes neither the registrations nor
\* the flags of any callable; add succeeds only with a string name that is not
\* registered and a callable, and then appends that one entry; and the callable
\* an invocation runs is the one of the name's entry.
C3_RejectedAddIsNoOp ==
  [][ /\ (last'.op = "add" /\ last'.ret # JTrue) =>
            /\ last'.ret = JFalse
            /\ UNCHANGED <<methods, run_init, this_api>>
      /\ (last'.op = "add" /\ last'.ret = JTrue) =>
            \E e \in {methods'[last'.g][Len(methods'[last'.g])]} :
              /\ methods' = [methods EXCEPT ![last'.g] = Append(@, e)]
              /\ ~Registered(last'.g, e.name)
              /\ IsString(e.name) /\ IsFunction(e.fn)
      /\ (last'.op = "call" /\ Registered(last'.g, last'.name)) =>
            last'.fn = Entry(last'.g, last'.name).fn
    ]_vars

\* An add on a registered name whose initializer has run was rejected.
C3_Witness ==
  /\ last.op = "add"
  /\ last.ret = JFalse
  /\ last.out = "cannot overwrite init method"
  /\ \E i \in 1..Len(methods[last.g]) :
       run_init[methods[last.g][i].fn] = JTrue

\* The apiIsThis a name was registered with.
Asked(g, name) == IF Registered(g, name) THEN Entry(g, name).asked ELSE JFalse

\* C7: an initializer is invoked with the group's api as receiver if and only if
\* its name was registered with apiIsThis=true and the group has a non-null api,
\* and with the group itself otherwise; conf is the argument.
C7_Receiver ==
  last.op = "call" =>
    /\ last.recv = IF Asked(last.g, last.name) = JTrue /\ api[last.g] # Null
                   THEN api[last.g] ELSE last.g
    /\ last.out = last.conf

\* C9: the first need on a registered name invokes the initializer, sets hasRun
\* and returns what the initializer returned; every later need returns true.
\* Stated of the needs that finish with no initializer executing and none that
\* raised.
C9_NeedResult ==
  ( /\ last.op = "need"
    /\ Registered(last.g, last.name)
    /\ stack = <<>>
    /\ \A f \in Callables : hist[f] # "began" )
    => IF last.first
       THEN last.did /\ last.ret = last.out /\ run_init[last.fn] = JTrue
       ELSE ~last.did /\ last.ret = JTrue

\* C10: need on a name that was never registered returns false and invokes no
\* function.
C10_UnknownNameRejected ==
  (last.op \in {"need", "call"} /\ ~Registered(last.g, last.name))
    => (last.op = "need" /\ last.ret = JFalse /\ ~last.did)

\* C11: run(conf) does not stop on a failing initializer: when run has ended,
\* whether it returned or an initializer raised, need was called on every
\* registered name of the group.
C11_RunAttemptsAll ==
  (last.op = "run" /\ Injective(last.g)) =>
    \A i \in 1..Len(methods[last.g]) : methods[last.g][i].needed

\* C12: the only transition of a registered initializer is unrun -> run: one
\* that has run stays run after every add, need and run, on any group.
C12_RunIsPermanent ==
  [][ \A g \in Groups : \A i \in 1..Len(methods[g]) :
        run_init[methods[g][i].fn] = JTrue =>
          run_init'[methods[g][i].fn] = JTrue
    ]_vars

\* C13: distinct names of a group are run independently, also when both hold
\* the same callable: a need on one name that invoked its initializer does not
\* change whether any other name of the group has run.
C13_NamesIndependent ==
  [][ (last'.op = "need" /\ last'.did) =>
        \A i \in 1..Len(methods[last'.g]) :
          methods[last'.g][i].name # last'.name =>
            run_init'[methods[last'.g][i].fn] = run_init[methods[last'.g][i].fn]
    ]_vars

\* C19: hasRun is set only after the initializer returns normally. When an
\* initializer raises, need (and a run that called it) raises and no flag
\* changes; a flag is true only if an invocation of the callable has returned
\* since it was registered, so a need issued while the initializer executes, or
\* after it raised, finds the flag false; and need returns true without invoking
\* only when the flag was true, so such a need invokes the initializer again.
C19_RaiseLeavesUnrun ==
  [][ /\ (last'.op \in {"need", "run"} /\ last'.ret = Threw) =>
           run_init' = run_init
      /\ \A f \in Callables : run_init'[f] = JTrue => hist'[f] = "returned"
      /\ (last'.op = "need" /\ ~last'.did /\ last'.ret = JTrue) =>
           run_init[last'.fn] = JTrue
      /\ (last'.op = "call") => run_init[last'.fn] # JTrue
    ]_vars

\* An initializer raised during need: need raised, and the flag is still false.
C19_Witness ==
  /\ last.op = "need"
  /\ last.did
  /\ last.ret = Threw
  /\ stack = <<>>
  /\ Registered(last.g, last.name)
  /\ run_init[last.fn] = JFalse

\* ------------------------------------------------------------ Extension claims

\* C4: a forwarding method installed with default options passes its arguments
\* to the extension's method, with the extension as receiver, and its caller gets
\* what the method returned.
C4_ForwardEquivalent ==
  (elast.op = "forward" /\ ~elast.mode /\ elast.name = elast.src)
    => /\ elast.recv = Ext
       /\ elast.args = elast.given
       /\ elast.ret = elast.out

\* C5: no call changes a property the parent already has unless it asked for
\* that name with a truthy canReplace; and addHandledMethod on an existing
\* destination without canReplace raises and changes nothing.
C5_ReplaceProtection ==
  [][ /\ \A m \in Models, n \in PropNames :
           (props[m][n] # NoProp /\ props'[m][n] # props[m][n]) =>
             /\ elast'.op \in {"addHandledMethod", "addHandledMethods"}
             /\ n \in elast'.forced
      /\ ( /\ elast'.op = "addHandledMethod"
           /\ elast'.forced = {}
           /\ parent \in Models
           /\ elast'.name \in PropNames
           /\ props[parent][elast'.name] # NoProp ) =>
             /\ elast'.ret = Threw
             /\ props' = props
    ]_vars

\* addHandledMethod without canReplace raised on a destination that an earlier
\* call had installed, and the forwarder is still there.
C5_Witness ==
  /\ elast.op = "addHandledMethod"
  /\ elast.forced = {}
  /\ ExtHas(elast.src)
  /\ elast.ret = Threw
  /\ parent \in Models
  /\ props[parent][elast.name].kind = "fwd"

\* C6: constructing an Extension with a parent that is no Model raises, the
\* parent field is not set and the setup hook is not invoked.
C6_InvalidParentNoState ==
  [][ (elast'.op = "new" /\ ~IsModel(elast'.m)) =>
        /\ elast'.ret = Threw
        /\ parent' = Undefined
        /\ UNCHANGED <<parent, props, setups>>
    ]_vars

\* A class with a setup hook was constructed with a plain object and raised.
C6_Witness ==
  /\ elast.op = "new"
  /\ elast.m = NotModel
  /\ elast.src = "adds"
  /\ elast.ret = Threw
  /\ parent = Undefined
  /\ setups = <<>>

\* C8: a forwarding method installed with modelIsThis=true runs the extension's
\* method with the Model it was installed on as receiver, and one installed
\* without it with the extension, whatever the parent field holds by then.
C8_ReceiverFixedAtInstall ==
  elast.op = "forward" => elast.recv = IF elast.mode THEN elast.m ELSE Ext

\* A forwarding method installed with modelIsThis=true was called after the
\* parent field was cleared, and ran with the Model as receiver.
C8_Witness ==
  /\ elast.op = "forward"
  /\ elast.mode
  /\ parent = Null
  /\ elast.recv = elast.m

\* The names of an array given to addHandledMethods().
ArrayNames(a) == [i \in 1..Len(a.items) |-> a.items[i].val.v]

\* C14: addHandledMethods given a list of names leaves the parent as calling
\* addHandledMethod(name) with the other parameters defaulted for each entry, in
\* list order, leaves it, and raises when one of those calls raises.
C14_ListAsSingleCalls ==
  [][ (elast'.op = "addHandledMethods" /\ elast'.arg.isArray) =>
        /\ props' = OneByOne(props, parent, ArrayNames(elast'.arg)).props
        /\ elast'.ret = OneByOne(props, parent, ArrayNames(elast'.arg)).ret
    ]_vars

\* A list of two names was given, and both forwarding methods were installed by
\* that call.
C14_Witness ==
  /\ elast.op = "addHandledMethods"
  /\ elast.arg = Arr(<<"foo", "bar">>)
  /\ elast.ret = Undefined
  /\ props[elast.m]["foo"] = Forwarder("foo", Ext, FALSE)
  /\ props[elast.m]["bar"] = Forwarder("bar", Ext, FALSE)

\* C20: addHandledMethods is not atomic: when the call for the k-th entry
\* raises, addHandledMethods raises, the parent is left as the calls for the
\* entries before k left it, and no entry after k is processed.
C20_BulkNotAtomic ==
  [][ (elast'.op = "addHandledMethods" /\ elast'.ret = Threw) =>
        LET a == elast'.arg
            k == Len(a.items) - elast'.left + 1
            At(j) == AfterEntries(props, parent, a.isArray, a.items, j)
        IN /\ k \in 1..Len(a.items)
           /\ \A j \in 1..(k - 1) :
                EntryHandled(At(j - 1), parent, a.isArray, a.items[j]).ret # Threw
           /\ EntryHandled(At(k - 1), parent, a.isArray, a.items[k]).ret = Threw
           /\ props' = At(k - 1)
    ]_vars

\* addHandledMethods raised at the second of three entries: the forwarding
\* method of the first is installed, and the third was not processed.
C20_Witness ==
  /\ elast.op = "addHandledMethods"
  /\ elast.ret = Threw
  /\ Len(elast.arg.items) = 3
  /\ elast.left = 2
  /\ props[elast.m][elast.arg.items[1].key].kind = "fwd"

\* Whether a value of a keyed mapping has one of the three forms: a string, a
\* boolean, or a structured spec.
IsForm(v) == v.type \in {"string", "boolean", "object"}

\* The destName and the modelIsThis that a value of one of the forms gives.
GivenDest(v) ==
  IF v.type = "string" THEN v.v ELSE IF v.type = "object" THEN v.destName
  ELSE Undefined
GivenMode(v) ==
  IF v.type = "boolean" THEN v.v ELSE IF v.type = "object" THEN v.modelIsThis
  ELSE Undefined

\* The destination of an entry: destName || srcName.
ResolvedDest(it) ==
  IF Truthy(GivenDest(it.val)) THEN GivenDest(it.val) ELSE it.key

\* The forwarding method the entry installs on the Model m.
EntryForwarder(m, it) ==
  Forwarder(it.key, IF Truthy(GivenMode(it.val)) THEN m ELSE Ext,
            Truthy(GivenMode(it.val)))

\* A call of addHandledMethods on a keyed mapping whose values all have one of
\* the three forms has returned.
MappingDone(e) ==
  /\ e.op = "addHandledMethods"
  /\ e.arg.type = "object" /\ ~e.arg.isArray
  /\ e.ret = Undefined
  /\ \A i \in 1..Len(e.arg.items) : IsForm(e.arg.items[i].val)

C16_NonObjectLogged ==
  [][ (elast'.op = "addHandledMethods" /\ elast'.arg.type # "object") =>
        /\ elast'.logged.text = "Non-object sent to addHandledMethods()"
        /\ elast'.ret = Undefined
        /\ props' = props
    ]_vars

\* C17: addHandledMethod with a srcName the extension has no method for raises
\* an error that names the missing method and installs nothing, whatever
\* destName and canReplace are.
C17_MissingSourceFirst ==
  [][ (elast'.op = "addHandledMethod" /\ ~ExtHas(elast'.src)) =>
        /\ elast'.ret = Threw
        /\ elast'.logged = Msg(elast'.src, " method not found in the Extension")
        /\ props' = props
    ]_vars

\* addHandledMethod raised for a missing method although the destination
\* existed and canReplace was not given.
C17_Witness ==
  /\ elast.op = "addHandledMethod"
  /\ elast.src = NoMethod
  /\ elast.name = "own"
  /\ elast.forced = {}
  /\ parent \in Models
  /\ elast.ret = Threw
  /\ elast.logged.who = NoMethod

\* C18: constructing an Extension with a Model stores the parent, then invokes
\* the setup hook, if the class has one, once with the Model, before it returns:
\* an addHandledMethod in the hook installs its forwarding method on the Model.
\* A class with no hook constructs without error.
C18_ParentThenSetup ==
  [][ (elast'.op = "new" /\ IsModel(elast'.m)) =>
        /\ parent' = elast'.m
        /\ IF elast'.src = NoHook
           THEN /\ setups' = setups
                /\ props' = props
                /\ elast'.ret = Undefined
           ELSE /\ setups' = <<elast'.m>>
                /\ elast'.ret = Undefined
                /\ elast'.src = "adds" =>
                     props'[elast'.m]["foo"] = Forwarder("foo", Ext, FALSE)
    ]_vars

\* A class whose setup hook calls addHandledMethod was constructed: the parent
\* is stored, the hook ran once, and the forwarding method is on the Model.
C18_Witness ==
  /\ elast.op = "new"
  /\ elast.src = "adds"
  /\ parent = elast.m
  /\ setups = <<parent>>
  /\ props[parent]["foo"] = Forwarder("foo", Ext, FALSE)

====
